---- MODULE Spec2Model ----
(***************************************************************************)
(* State-machine model of the New-Era-AI-Form front end: the App view      *)
(* controller (App.jsx) and the camera-owning views CameraInterface,       *)
(* GestureInterface, RegistrationForm and HeadPoseDisplay.                 *)
(*                                                                         *)
(* React semantics kept by the model:                                      *)
(*  - a component instance lives while its view is the current view; a     *)
(*    change of currentView runs the old instance's effect cleanup and     *)
(*    mounts a fresh instance (fresh useState / useRef values);            *)
(*  - a state setter of an unmounted instance changes nothing;             *)
(*  - a function created during a render reads the state values of that    *)
(*    render: an interval callback created by startFaceValidation keeps    *)
(*    the isProcessing and cameraQuality of the render whose               *)
(*    initializeCamera installed it (a "closure" below);                   *)
(*  - code between two awaits runs as one step.                            *)
(***************************************************************************)
EXTENDS Integers, Sequences, FiniteSets, Bags, TLC

\* ------------------------------------------------------------- bounds
MaxStreams == 2      \* media stream ids (streams live or still referenced at once)
MaxPending == 2      \* asynchronous calls and timeouts outstanding at once
MaxLoops == 2        \* interval timers existing at once
MaxRetries == 1      \* 'Enhance Quality' presses per CameraInterface instance
MaxDetections == 1   \* cap of HeadPoseDisplay's detectionCount

\* ---------------------------------------------------------- constants
Views == {"camera", "gesture", "register", "main", "guest", "health"}
CameraViews == {"camera", "gesture", "register", "health"}
PollingOnMount == {"gesture", "health"}
Users == {"A"}
NoUser == "null"
GuestUser == "Guest"
qualities == <<"high", "medium", "default">>

VARIABLES
  currentView,   \* App: useState('camera')
  user,          \* App: useState(null)
  inst,          \* useState values of the mounted view component
  streamRef,     \* streamRef.current of the mounted view: a stream id, 0 = null
  video,         \* the mounted view's <video>: ready (videoWidth # 0), pending
                 \* loadedmetadata event, installed onloadedmetadata closure
  live,          \* ids of the media streams whose track is not stopped
  acquired,      \* the live streams that getUserMedia calls of the mounted
                 \* instance returned
  pending,       \* bag of outstanding getUserMedia / axios.post calls and timeouts
  loops,         \* interval timers (setInterval) that were not cleared
  last           \* the step taken last (history variable)

vars ==
  <<currentView, user, inst, streamRef, video, live, acquired, pending, loops, last>>

\* ------------------------------------------------------------ values
\* the state values an interval callback reads: those of the render that
\* created it (proc: isProcessing, qual: cameraQuality, det: isDetecting)
Closure(proc, qual, det) == [proc |-> proc, qual |-> qual, det |-> det]
NoClosure == Closure(FALSE, "none", FALSE)

\* useState initial values (first render) of each view component
CamFirstRender ==
  [message |-> "initializing", isProcessing |-> FALSE, cameraQuality |-> "high",
   retries |-> 0]
GesFirstRender == [message |-> "prompt", gestureDetected |-> "null", isDetecting |-> TRUE]
RegFirstRender ==
  [formOk |-> FALSE, errors |-> {}, isSubmitting |-> FALSE, capturedFace |-> FALSE,
   isCapturingFace |-> FALSE]
PoseFirstRender == [headPose |-> "center", isDetecting |-> TRUE, detectionCount |-> 0]
NoInst == [message |-> "none"]

NoVideo == [ready |-> FALSE, pending |-> FALSE, handler |-> NoClosure]
NoLoop == [st |-> "free", kind |-> "none", cur |-> FALSE, clo |-> NoClosure]

\* An outstanding call. cur: its component instance is still mounted.
\*   "gum"      getUserMedia of view `view`, attempt i of the tier list, tiers
\*              asked so far `tried`, closure of the calling render
\*   "validate" POST /api/validate-face issued by interval timer `loop`
\*   "gesture"  POST /api/detect-gesture of GestureInterface
\*   "pose"     POST /api/detect-gesture of HeadPoseDisplay
\*   "timer"    setTimeout whose callback moves to view `to`
\*   "capture"  POST /api/capture-face, errs the errors of the calling render
\*   "register" POST /api/register
\* dup (of a "timer"): a callback of the same GestureInterface instance has
\* already invoked onRegistrationStart or onGuestAccess.
Call(k) ==
  [k |-> k, cur |-> TRUE, view |-> "none", i |-> 0, tried |-> <<>>,
   clo |-> NoClosure, loop |-> 0, to |-> "none", errs |-> {}, dup |-> FALSE]
Gum(view, i, tried, clo) ==
  [Call("gum") EXCEPT !.view = view, !.i = i, !.tried = tried, !.clo = clo]
Validate(loop) == [Call("validate") EXCEPT !.loop = loop]
Timer(to) == [Call("timer") EXCEPT !.to = to]
Capture(errs) == [Call("capture") EXCEPT !.errs = errs]

\* `last` notes the settlements of asynchronous calls, the controls that switch
\* views and the ticks that return early; every other step leaves "other".
Noted ==
  {"Init", "GumResolve", "GumRejectAll", "RespSuccess", "RespPrompt", "RespRetry",
   "RespError", "GestureResp", "GestureError", "TimerFire", "RegisterSuccess",
   "RegisterFailed", "Logout", "Restart", "Back", "NavMainApp", "NavHealth",
   "RegisterGuest", "Reload", "TickSkip", "DetectSkip", "MainTestHead"}
Step(op, loop, arg) ==
  IF op \in Noted THEN [op |-> op, loop |-> loop, arg |-> arg]
  ELSE [op |-> "other", loop |-> 0, arg |-> ""]

\* getCameraConstraints(quality): the (width, height, frameRate) asked of
\* getUserMedia; 'default' falls through the switch and keeps the initial values.
getCameraConstraints(quality) ==
  CASE quality = "ultra"  -> [width |-> 3840, height |-> 2160, frameRate |-> 30]
    [] quality = "high"   -> [width |-> 1920, height |-> 1080, frameRate |-> 60]
    [] quality = "medium" -> [width |-> 1280, height |-> 720, frameRate |-> 30]
    [] OTHER              -> [width |-> 1920, height |-> 1080, frameRate |-> 60]

\* ------------------------------------------------------------ helpers
Lowest(S) == CHOOSE k \in S : \A j \in S : k <= j
One(e) == SetToBag({e})
Calls(k) == {e \in BagToSet(pending) : e.k = k}
FreeLoops(f) == {k \in DOMAIN f : f[k].st = "free"}
FreeStreams == (1..MaxStreams) \ (live \cup {streamRef})
Room(b) == BagCardinality(b) < MaxPending

\* On unmount every outstanding call and every interval timer of the instance
\* stays in existence (nothing cancels them) but belongs to no mounted instance.
\* What such a callback captured of its instance's render state for use in a
\* setter or a request can no longer be observed (the setters do nothing, its
\* videoRef.current is null), so that part of the record is dropped.
Orphaned(e) == [e EXCEPT !.cur = FALSE, !.clo.proc = FALSE, !.clo.qual = "none"]
OrphanedCall(e) == [Orphaned(e) EXCEPT !.errs = {}]
StaleCalls(b) ==
  LET S == {OrphanedCall(e) : e \in BagToSet(b)}
  IN  [e \in S |->
         BagCardinality([x \in {y \in BagToSet(b) : OrphanedCall(y) = e} |-> b[x]])]
StaleLoops(f) == [k \in DOMAIN f |-> IF f[k].st = "free" THEN f[k] ELSE Orphaned(f[k])]

\* track.stop() on every track of stream s; stopping a stopped track does nothing
\* variant in which a second stop undoes the first
StopTracks_Toggle(s) == IF s \in live THEN live \ {s} ELSE live \cup {s}
StopTracks(s) == live \ {s}

\* streamRef.current names a stream whose tracks were already stopped
Released == streamRef # 0 /\ streamRef \notin live

\* ------------------------------------------------------ view switching
\* useEffect cleanup of the view being left: stop the tracks of streamRef.current
\* (all four camera views: part_000:14-18, 403-407, GestureInterface.jsx:16-20,
\* RegistrationForm.jsx:21-25); no clearInterval, no request cancellation.
Cleanup == IF streamRef # 0 THEN StopTracks(streamRef) ELSE live

\* The getUserMedia call a view's mount effect makes (initializeCamera).
MountCall(v) ==
  IF v = "camera"
  THEN Gum("camera", 1, <<qualities[1]>>,
           Closure(CamFirstRender.isProcessing, CamFirstRender.cameraQuality, FALSE))
  ELSE Gum(v, 0, <<>>, NoClosure)

\* The component state after the mount effect ran (CameraInterface's
\* initializeCamera sets the message before its first await).
MountState(v) ==
  CASE v = "camera"   -> [CamFirstRender EXCEPT !.message = "accessing"]
    [] v = "gesture"  -> GesFirstRender
    [] v = "register" -> RegFirstRender
    [] v = "health"   -> PoseFirstRender
    [] OTHER          -> NoInst

\* setInterval in the mount effect of GestureInterface (startGestureDetection,
\* GestureInterface.jsx:14, 50-51) and HeadPoseDisplay (startHeadPoseDetection,
\* part_000:401, 436-437): the callback reads the first render's isDetecting.
MountLoops(v, lps) ==
  IF v \in PollingOnMount
  THEN [lps EXCEPT ![Lowest(FreeLoops(lps))] =
          [st |-> "active", kind |-> v, cur |-> TRUE,
           clo |-> Closure(FALSE, "none", TRUE)]]
  ELSE lps

\* React re-render after setCurrentView(v) with pend / lps the outstanding calls
\* and timers left by the handler that called it. Same view: nothing remounts.
CanSwitch(v, pend, lps) ==
  \/ v = currentView
  \/ /\ v \in CameraViews => Room(pend)
     /\ v \in PollingOnMount => FreeLoops(lps) # {}

SwitchView(v, pend, lps) ==
  /\ currentView' = v
  /\ IF v = currentView
     THEN /\ pending' = pend
          /\ loops' = lps
          /\ UNCHANGED <<inst, streamRef, video, live, acquired>>
     ELSE /\ live' = Cleanup
          /\ acquired' = {}
          /\ streamRef' = 0
          /\ video' = NoVideo
          /\ loops' = MountLoops(v, StaleLoops(lps))
          /\ pending' = IF v \in CameraViews
                        THEN StaleCalls(pend) (+) One(MountCall(v))
                        ELSE StaleCalls(pend)
          /\ inst' = MountState(v)

\* ------------------------------------------------------------ Init
Init ==
  /\ currentView = "camera"
  /\ user = NoUser
  /\ inst = MountState("camera")
  /\ streamRef = 0
  /\ video = NoVideo
  /\ live = {}
  /\ acquired = {}
  /\ pending = One(MountCall("camera"))
  /\ loops = [k \in 1..MaxLoops |-> NoLoop]
  /\ last = Step("Init", 0, "")

\* ------------------------------------------------- camera acquisition
\* getUserMedia resolves with a stream (part_000:71-98 for the camera view;
\* GestureInterface.jsx:25-29, RegistrationForm.jsx:30-34, part_000:412-416).
\* In an unmounted instance videoRef.current is null: the assignment of
\* srcObject throws after streamRef.current was set, the catch only logs or
\* sets a dead message, and the stream stays live with nobody left to stop it.
GumResolve(r) ==
  /\ r \in Calls("gum")
  /\ FreeStreams # {}
  /\ LET s == Lowest(FreeStreams) IN
       /\ live' = live \cup {s}
       /\ acquired' = IF r.cur THEN acquired \cup {s} ELSE acquired
       /\ IF r.cur
          THEN /\ streamRef' = s
               /\ video' = [ready |-> FALSE, pending |-> TRUE, handler |-> r.clo]
               /\ inst' = IF r.view = "camera"
                          THEN [inst EXCEPT !.cameraQuality = qualities[r.i]]
                          ELSE inst
          ELSE UNCHANGED <<streamRef, video, inst>>
  /\ pending' = pending (-) One(r)
  /\ last' = Step("GumResolve", 0, IF r.view = "camera" THEN qualities[r.i] ELSE "vga")
  /\ UNCHANGED <<currentView, user, loops>>

\* the next iteration of `for (const quality of qualities)` (part_000:66-82)
\* variant that jumps to the last tier
Attempt_Skip(r) ==
  [r EXCEPT !.i = Len(qualities), !.tried = Append(r.tried, qualities[Len(qualities)])]
Attempt(r) == [r EXCEPT !.i = r.i + 1, !.tried = Append(r.tried, qualities[r.i + 1])]

\* getUserMedia rejects and the for loop has another tier to try (part_000:78-81)
GumRejectNext(r) ==
  /\ r \in Calls("gum")
  /\ r.view = "camera"
  /\ r.i < Len(qualities)
  /\ pending' = (pending (-) One(r)) (+) One(Attempt(r))
  /\ last' = Step("GumRejectNext", 0, qualities[r.i])
  /\ UNCHANGED <<currentView, user, inst, streamRef, video, live, acquired, loops>>

\* the message a view shows when its acquisition failed: CameraInterface
\* part_000:102, GestureInterface.jsx:31; RegistrationForm.jsx:36 and
\* HeadPoseDisplay part_000:418 only log
AcquisitionFailed(v, st) ==
  CASE v = "camera"  -> [st EXCEPT !.message = "camfail"]
    [] v = "gesture" -> [st EXCEPT !.message = "camerror"]
    [] OTHER         -> st

\* getUserMedia rejects with no tier left: throw, catch (part_000:84-86, 100-103)
GumRejectAll(r) ==
  /\ r \in Calls("gum")
  /\ r.view = "camera" => r.i = Len(qualities)
  /\ pending' = pending (-) One(r)
  /\ inst' = IF r.cur THEN AcquisitionFailed(r.view, inst) ELSE inst
  /\ last' = Step("GumRejectAll", 0, r.view)
  /\ UNCHANGED <<currentView, user, streamRef, video, live, acquired, loops>>

\* video.onloadedmetadata of the camera view (part_000:92-95): the stream bound
\* to the element delivers its first frame; startFaceValidation creates a new
\* interval timer whose callback reads the installing render's state.
startFaceValidation(clo) ==
  [loops EXCEPT ![Lowest(FreeLoops(loops))] =
     [st |-> "active", kind |-> "camera", cur |-> TRUE, clo |-> clo]]

LoadedMetadata ==
  /\ currentView = "camera"
  /\ video.pending
  /\ streamRef \in live
  /\ FreeLoops(loops) # {}
  /\ video' = [video EXCEPT !.ready = TRUE, !.pending = FALSE]
  /\ inst' = [inst EXCEPT !.message = "ready"]
  /\ loops' = startFaceValidation(video.handler)
  /\ last' = Step("LoadedMetadata", Lowest(FreeLoops(loops)), "")
  /\ UNCHANGED <<currentView, user, streamRef, live, acquired, pending>>

\* the other views install no handler: the element just starts to report
\* videoWidth # 0
VideoReady ==
  /\ currentView \in CameraViews \ {"camera"}
  /\ video.pending
  /\ streamRef \in live
  /\ video' = [video EXCEPT !.ready = TRUE, !.pending = FALSE]
  /\ last' = Step("VideoReady", 0, "")
  /\ UNCHANGED <<currentView, user, inst, streamRef, live, acquired, pending, loops>>

\* 'Enhance Quality' button (part_000:206-212): retryWithBetterQuality of the
\* current render stops the tracks of streamRef.current and calls that render's
\* initializeCamera.
retryWithBetterQuality ==
  /\ currentView = "camera"
  /\ Room(pending)
  /\ inst.retries < MaxRetries
  /\ live' = Cleanup
  /\ acquired' = acquired \cap Cleanup
  /\ inst' = [inst EXCEPT !.message = "accessing", !.retries = inst.retries + 1]
  /\ pending' = pending (+) One(Gum("camera", 1, <<qualities[1]>>,
                       Closure(inst.isProcessing, inst.cameraQuality, FALSE)))
  /\ last' = Step("retryWithBetterQuality", 0, "")
  /\ UNCHANGED <<currentView, user, streamRef, video, loops>>

\* ------------------------------------------------ face-validation polling
\* captureFrame (part_000:124-143, GestureInterface.jsx:36-48, part_000:422-434):
\* null when the video element is gone (unmounted instance) or reports
\* videoWidth = 0.
captureFrame(l) == IF l.cur /\ video.ready THEN "jpeg" ELSE "null"

\* the callback's guard `if (isProcessing) return` reads the closure's value
Busy(l) == l.clo.proc

\* interval callback up to the axios.post (part_000:170-184)
TickIssue(k) ==
  /\ loops[k].st = "active" /\ loops[k].kind = "camera"
  /\ ~Busy(loops[k])
  /\ captureFrame(loops[k]) # "null"
  /\ Room(pending)
  /\ inst' = [inst EXCEPT !.isProcessing = TRUE]
  /\ pending' = pending (+) One(Validate(k))
  /\ last' = Step("TickIssue", k, loops[k].clo.qual)
  /\ UNCHANGED <<currentView, user, streamRef, video, live, acquired, loops>>

\* interval callback that returns early (part_000:171, 174)
\* variant that clears the timer on the way out
TickSkip_Stops(k) ==
  /\ loops[k].st = "active" /\ loops[k].kind = "camera"
  /\ Busy(loops[k]) \/ captureFrame(loops[k]) = "null"
  /\ loops' = [loops EXCEPT ![k].st = "cleared"]
  /\ last' = Step("TickSkip", 0, "")
  /\ UNCHANGED <<currentView, user, inst, streamRef, video, live, acquired, pending>>
TickSkip(k) ==
  /\ loops[k].st = "active" /\ loops[k].kind = "camera"
  /\ Busy(loops[k]) \/ captureFrame(loops[k]) = "null"
  /\ last' = Step("TickSkip", 0, "")
  /\ UNCHANGED <<currentView, user, inst, streamRef, video, live, acquired, pending, loops>>

\* clearInterval(interval) of the callback's own timer; the slot is reusable
\* once no request of the timer is outstanding
clearInterval(lps, k) == [lps EXCEPT ![k].st = "cleared"]
Reap(lps, pend) ==
  [k \in DOMAIN lps |->
     IF lps[k].st = "cleared" /\ ~\E e \in BagToSet(pend) : e.loop = k
     THEN NoLoop ELSE lps[k]]

\* App.handleLoginSuccess (App.jsx:14-17)
handleLoginSuccess(userData, pend, lps) ==
  /\ user' = userData
  /\ SwitchView("main", pend, lps)

\* App.handleRegisterPrompt (App.jsx:19-21)
handleRegisterPrompt(pend, lps) ==
  /\ user' = user
  /\ SwitchView("gesture", pend, lps)

\* what the terminal branches do to the callback's timer (part_000:189, 192)
\* variant without the clearInterval
StopPolling_Kept(lps, k) == lps
StopPolling(lps, k) == clearInterval(lps, k)

\* response {success: true, user} (part_000:188-190). The finally block
\* (part_000:200-202) runs before React re-renders: on a view change the
\* instance is gone and its state with it.
RespSuccess(r, u) ==
  /\ r \in Calls("validate")
  /\ LET pend == pending (-) One(r)
         lps == Reap(StopPolling(loops, r.loop), pend) IN
       /\ CanSwitch("main", pend, lps)
       /\ handleLoginSuccess(u, pend, lps)
  /\ last' = Step("RespSuccess", r.loop, u)

\* response {success: false, action: 'register_prompt'} (part_000:191-193)
RespPrompt(r) ==
  /\ r \in Calls("validate")
  /\ LET pend == pending (-) One(r)
         lps == Reap(StopPolling(loops, r.loop), pend) IN
       /\ CanSwitch("gesture", pend, lps)
       /\ handleRegisterPrompt(pend, lps)
  /\ last' = Step("RespPrompt", r.loop, "")

\* what the mounted instance shows after a non-terminal settlement: the new
\* message, and isProcessing reset by the finally block (part_000:194-202)
\* variant without the finally block
Settle_Stuck(r, msg) ==
  IF r.cur THEN [inst EXCEPT !.message = msg] ELSE inst
\* variant without the setMessage
Settle_Silent(r, msg) ==
  IF r.cur THEN [inst EXCEPT !.isProcessing = FALSE] ELSE inst
Settle(r, msg) ==
  IF r.cur THEN [inst EXCEPT !.message = msg, !.isProcessing = FALSE] ELSE inst

\* response {success: false, message} without register_prompt (part_000:194-196)
RespRetry(r) ==
  /\ r \in Calls("validate")
  /\ pending' = pending (-) One(r)
  /\ loops' = Reap(loops, pending (-) One(r))
  /\ inst' = Settle(r, "server")
  /\ last' = Step("RespRetry", r.loop, "")
  /\ UNCHANGED <<currentView, user, streamRef, video, live, acquired>>

\* axios.post rejects (part_000:197-199)
RespError(r) ==
  /\ r \in Calls("validate")
  /\ pending' = pending (-) One(r)
  /\ loops' = Reap(loops, pending (-) One(r))
  /\ inst' = Settle(r, "unavailable")
  /\ last' = Step("RespError", r.loop, "")
  /\ UNCHANGED <<currentView, user, streamRef, video, live, acquired>>

\* ------------------------------------------------------ gesture polling
\* the callback's guard `if (!isDetecting)` reads the closure's value
Detecting(l) == l.clo.det

\* interval callback of GestureInterface / HeadPoseDisplay up to the axios.post
\* (GestureInterface.jsx:51-63, part_000:437-449)
DetectIssue(k) ==
  /\ loops[k].st = "active" /\ loops[k].kind \in PollingOnMount
  /\ Detecting(loops[k])
  /\ captureFrame(loops[k]) # "null"
  /\ Room(pending)
  /\ pending' = pending (+) One(Call(IF loops[k].kind = "gesture" THEN "gesture" ELSE "pose"))
  /\ last' = Step("DetectIssue", k, loops[k].kind)
  /\ UNCHANGED <<currentView, user, inst, streamRef, video, live, acquired, loops>>

\* interval callback that returns early: clearInterval when the closure's
\* isDetecting is false, plain return on a null frame
DetectSkip(k) ==
  /\ loops[k].st = "active" /\ loops[k].kind \in PollingOnMount
  /\ ~Detecting(loops[k]) \/ captureFrame(loops[k]) = "null"
  /\ loops' = IF ~Detecting(loops[k]) THEN Reap(clearInterval(loops, k), pending)
              ELSE loops
  /\ last' = Step("DetectSkip", 0, "")
  /\ UNCHANGED <<currentView, user, inst, streamRef, video, live, acquired, pending>>

\* response {success, detected, gesture} of detect-gesture in GestureInterface
\* (GestureInterface.jsx:65-83); g = "none" stands for !success or !detected
GestureOutcomes == {"left", "right", "center", "none"}

GestureResp(r, g) ==
  /\ r \in Calls("gesture")
  /\ inst' = IF r.cur /\ g # "none"
             THEN CASE g = "left"  -> [inst EXCEPT !.gestureDetected = g,
                                         !.isDetecting = FALSE, !.message = "yes"]
                    [] g = "right" -> [inst EXCEPT !.gestureDetected = g,
                                         !.isDetecting = FALSE, !.message = "no"]
                    [] OTHER       -> [inst EXCEPT !.gestureDetected = g]
             ELSE inst
  /\ pending' = CASE g = "left"  -> (pending (-) One(r))
                                    (+) One([Timer("register") EXCEPT !.cur = r.cur])
                  [] g = "right" -> (pending (-) One(r))
                                    (+) One([Timer("guest") EXCEPT !.cur = r.cur])
                  [] OTHER       -> pending (-) One(r)
  /\ last' = Step("GestureResp", 0, g)
  /\ UNCHANGED <<currentView, user, streamRef, video, live, acquired, loops>>

\* axios.post rejects (GestureInterface.jsx:84-90): the closure's message is the
\* first render's, which never contains 'Use buttons below'
\* variant whose includes() test is inverted
GestureUnavailable_Quiet(st) == st
GestureUnavailable(st) == [st EXCEPT !.message = "unavailable"]

GestureError(r) ==
  /\ r \in Calls("gesture")
  /\ inst' = IF r.cur THEN GestureUnavailable(inst) ELSE inst
  /\ pending' = pending (-) One(r)
  /\ last' = Step("GestureError", 0, "")
  /\ UNCHANGED <<currentView, user, streamRef, video, live, acquired, loops>>

\* handleManualYes / handleManualNo (GestureInterface.jsx:97-109); the buttons
\* are disabled unless isDetecting (GestureInterface.jsx:162-175)
ManualEnabled == currentView = "gesture" /\ inst.isDetecting

handleManual(g) ==
  /\ ManualEnabled
  /\ Room(pending)
  /\ inst' = [inst EXCEPT !.isDetecting = FALSE, !.gestureDetected = g,
                          !.message = IF g = "left" THEN "yesSelected" ELSE "noSelected"]
  /\ pending' = pending (+) One(Timer(IF g = "left" THEN "register" ELSE "guest"))
  /\ last' = Step("handleManual", 0, g)
  /\ UNCHANGED <<currentView, user, streamRef, video, live, acquired, loops>>

\* App.handleGuestAccess (App.jsx:23-26)
\* variant without the setUser
handleGuestAccess_Anon(pend, lps) ==
  /\ user' = user
  /\ SwitchView("guest", pend, lps)
handleGuestAccess(pend, lps) ==
  /\ user' = GuestUser
  /\ SwitchView("guest", pend, lps)

\* the timeouts that stay scheduled when the callback of timeout r has run:
\* setTimeout's id is dropped, nothing calls clearTimeout
\* (GestureInterface.jsx:73-81, 101, 108)
Outcome(e, r) == IF r.cur /\ e.k = "timer" /\ e.cur THEN [e EXCEPT !.dup = TRUE] ELSE e
StillScheduled(b, r) ==
  LET S == {Outcome(e, r) : e \in BagToSet(b)}
  IN  [x \in S |->
         BagCardinality([e \in {y \in BagToSet(b) : Outcome(y, r) = x} |-> b[e]])]

\* the setTimeout callbacks: onRegistrationStart = () => setCurrentView('register')
\* (App.jsx:49), onGuestAccess = handleGuestAccess (App.jsx:50)
TimerFire(r) ==
  /\ r \in Calls("timer")
  /\ LET pend == StillScheduled(pending (-) One(r), r) IN
       /\ CanSwitch(r.to, pend, loops)
       /\ IF r.to = "register"
          THEN user' = user /\ SwitchView("register", pend, loops)
          ELSE handleGuestAccess(pend, loops)
  /\ last' = Step("TimerFire", 0, r.to)

\* ----------------------------------------------------- head-pose test
\* response of detect-gesture in HeadPoseDisplay (part_000:451-458)
PoseResp(r, g) ==
  /\ r \in Calls("pose")
  /\ g \in {"left", "right", "center", "none", "error"}
  /\ r.cur /\ g \notin {"none", "error"} => inst.detectionCount < MaxDetections
  /\ inst' = IF ~r.cur \/ g = "none" THEN inst
             ELSE IF g = "error" THEN [inst EXCEPT !.headPose = "error"]
             ELSE [inst EXCEPT !.headPose = g,
                               !.detectionCount = inst.detectionCount + 1]
  /\ pending' = pending (-) One(r)
  /\ last' = Step("PoseResp", 0, g)
  /\ UNCHANGED <<currentView, user, streamRef, video, live, acquired, loops>>

\* -------------------------------------------------------- registration
\* Of the errors object the keys face and submit are kept; the four field keys
\* are what formOk decides.
\* handleChange (RegistrationForm.jsx:72-77): formOk abstracts whether the four
\* text fields pass validateForm's checks (RegistrationForm.jsx:82-100)
handleChange(ok) ==
  /\ currentView = "register"
  /\ inst.formOk # ok
  /\ inst' = [inst EXCEPT !.formOk = ok]
  /\ last' = Step("handleChange", 0, "")
  /\ UNCHANGED <<currentView, user, streamRef, video, live, acquired, pending, loops>>

\* captureFace up to the axios.post (RegistrationForm.jsx:40-57); the button is
\* disabled while isCapturingFace (RegistrationForm.jsx:162)
captureFace ==
  /\ currentView = "register"
  /\ ~inst.isCapturingFace
  /\ Room(pending)
  /\ inst' = [inst EXCEPT !.isCapturingFace = TRUE]
  /\ pending' = pending (+) One(Capture(inst.errors \ {"face"}))
  /\ last' = Step("captureFace", 0, "")
  /\ UNCHANGED <<currentView, user, streamRef, video, live, acquired, loops>>

\* capture-face settles (RegistrationForm.jsx:59-69): setErrors spreads the
\* errors of the render that made the call
CaptureResp(r, ok) ==
  /\ r \in Calls("capture")
  /\ inst' = IF ~r.cur THEN inst
             ELSE IF ok THEN [inst EXCEPT !.capturedFace = TRUE,
                                          !.errors = r.errs \ {"face"},
                                          !.isCapturingFace = FALSE]
             ELSE [inst EXCEPT !.errors = r.errs \cup {"face"},
                               !.isCapturingFace = FALSE]
  /\ pending' = pending (-) One(r)
  /\ last' = Step("CaptureResp", 0, IF ok THEN "ok" ELSE "failed")
  /\ UNCHANGED <<currentView, user, streamRef, video, live, acquired, loops>>

\* 'Retake Photo' (RegistrationForm.jsx:181-187)
Retake ==
  /\ currentView = "register"
  /\ inst.capturedFace
  /\ inst' = [inst EXCEPT !.capturedFace = FALSE]
  /\ last' = Step("Retake", 0, "")
  /\ UNCHANGED <<currentView, user, streamRef, video, live, acquired, pending, loops>>

\* validateForm (RegistrationForm.jsx:79-108): the errors it finds
validateForm(st) ==
  (IF st.formOk THEN {} ELSE {"form"}) \cup (IF st.capturedFace THEN {} ELSE {"face"})
Kept(errs) == errs \cap {"face", "submit"}

\* the submit button is disabled while isSubmitting or without a captured face
\* (RegistrationForm.jsx:271-277)
\* variant whose button is not disabled while isSubmitting
CanSubmit_Unlocked(st) == st.capturedFace
CanSubmit(st) == ~st.isSubmitting /\ st.capturedFace

\* handleSubmit up to the axios.post (RegistrationForm.jsx:110-122)
handleSubmit ==
  /\ currentView = "register"
  /\ CanSubmit(inst)
  /\ IF validateForm(inst) # {}
     THEN /\ inst' = [inst EXCEPT !.errors = Kept(validateForm(inst))]
          /\ UNCHANGED pending
     ELSE /\ Room(pending)
          /\ inst' = [inst EXCEPT !.errors = {}, !.isSubmitting = TRUE]
          /\ pending' = pending (+) One(Call("register"))
  /\ last' = Step("handleSubmit", 0, IF validateForm(inst) # {} THEN "invalid" ELSE "sent")
  /\ UNCHANGED <<currentView, user, streamRef, video, live, acquired, loops>>

\* App.handleRegistrationComplete (App.jsx:28-31)
\* variant without the setUser
handleRegistrationComplete_Anon(userData, pend, lps) ==
  /\ user' = user
  /\ SwitchView("main", pend, lps)
handleRegistrationComplete(userData, pend, lps) ==
  /\ user' = userData
  /\ SwitchView("main", pend, lps)

\* response {success: true, user} of register (RegistrationForm.jsx:124-125)
RegisterSuccess(r, u) ==
  /\ r \in Calls("register")
  /\ LET pend == pending (-) One(r) IN
       /\ CanSwitch("main", pend, loops)
       /\ handleRegistrationComplete(u, pend, loops)
  /\ last' = Step("RegisterSuccess", 0, u)

\* response {success: false, message} or a rejected call
\* (RegistrationForm.jsx:126-133)
\* variant without the finally block
SubmitFailed_Locked(st) == [st EXCEPT !.errors = {"submit"}]
SubmitFailed(st) == [st EXCEPT !.errors = {"submit"}, !.isSubmitting = FALSE]

RegisterFailed(r) ==
  /\ r \in Calls("register")
  /\ inst' = IF r.cur THEN SubmitFailed(inst) ELSE inst
  /\ pending' = pending (-) One(r)
  /\ last' = Step("RegisterFailed", 0, "")
  /\ UNCHANGED <<currentView, user, streamRef, video, live, acquired, loops>>

\* ------------------------------------------------------- App controls
\* App.handleBackToCamera (App.jsx:33-35)
handleBackToCamera ==
  /\ user' = user
  /\ SwitchView("camera", pending, loops)

\* MainPage 'Logout & Start Over' (MainPage.jsx:36-41, App.jsx:63)
Logout ==
  /\ currentView = "main"
  /\ CanSwitch("camera", pending, loops)
  /\ handleBackToCamera
  /\ last' = Step("Logout", 0, "")

\* header 'Restart', rendered when user is set (App.jsx:104-111)
Restart ==
  /\ user # NoUser
  /\ currentView # "camera"
  /\ CanSwitch("camera", pending, loops)
  /\ handleBackToCamera
  /\ last' = Step("Restart", 0, "")

\* GuestPage 'Try Full Registration' (GuestPage.jsx:34-39), RegistrationForm
\* 'Back to Camera' (RegistrationForm.jsx:257-263), HeadPoseDisplay 'Back to
\* Main App' (part_000:537-542): onBack = handleBackToCamera
Back ==
  /\ currentView \in {"guest", "register", "health"}
  /\ CanSwitch("camera", pending, loops)
  /\ handleBackToCamera
  /\ last' = Step("Back", 0, currentView)

\* header nav buttons (App.jsx:92-103)
NavMainApp ==
  /\ currentView # "camera"
  /\ CanSwitch("camera", pending, loops)
  /\ user' = user
  /\ SwitchView("camera", pending, loops)
  /\ last' = Step("NavMainApp", 0, "")

NavHealth ==
  /\ currentView # "health"
  /\ CanSwitch("health", pending, loops)
  /\ user' = user
  /\ SwitchView("health", pending, loops)
  /\ last' = Step("NavHealth", 0, IF Released THEN "released" ELSE "")

\* MainPage 'Test Head Detection' (MainPage.jsx:42-47): the handler calls
\* setCurrentView, which MainPage neither receives as a prop nor defines
\* (MainPage.jsx:3); the call throws a ReferenceError and no state changes.
MainTestHead ==
  /\ currentView = "main"
  /\ last' = Step("MainTestHead", 0, "")
  /\ UNCHANGED <<currentView, user, inst, streamRef, video, live, acquired, pending, loops>>

\* RegistrationForm 'Continue as Guest' (RegistrationForm.jsx:264-270)
RegisterGuest ==
  /\ currentView = "register"
  /\ handleGuestAccess(pending, loops)
  /\ last' = Step("RegisterGuest", 0, "")

\* window.location.reload(): GuestPage 'Restart Demo' (GuestPage.jsx:42),
\* HeadPoseDisplay 'Restart Detection' (part_000:545). The page, its timers,
\* requests and streams are gone and the app starts again.
Reload ==
  /\ currentView \in {"guest", "health"}
  /\ currentView' = "camera"
  /\ user' = NoUser
  /\ inst' = MountState("camera")
  /\ streamRef' = 0
  /\ video' = NoVideo
  /\ live' = {}
  /\ acquired' = {}
  /\ pending' = One(MountCall("camera"))
  /\ loops' = [k \in 1..MaxLoops |-> NoLoop]
  /\ last' = Step("Reload", 0, "")

Next ==
  \/ \E r \in BagToSet(pending) : GumResolve(r)
  \/ \E r \in BagToSet(pending) : GumRejectNext(r)
  \/ \E r \in BagToSet(pending) : GumRejectAll(r)
  \/ LoadedMetadata
  \/ VideoReady
  \/ retryWithBetterQuality
  \/ \E k \in 1..MaxLoops : TickIssue(k)
  \/ \E k \in 1..MaxLoops : TickSkip(k)
  \/ \E r \in BagToSet(pending), u \in Users : RespSuccess(r, u)
  \/ \E r \in BagToSet(pending) : RespPrompt(r)
  \/ \E r \in BagToSet(pending) : RespRetry(r)
  \/ \E r \in BagToSet(pending) : RespError(r)
  \/ \E k \in 1..MaxLoops : DetectIssue(k)
  \/ \E k \in 1..MaxLoops : DetectSkip(k)
  \/ \E r \in BagToSet(pending), g \in GestureOutcomes : GestureResp(r, g)
  \/ \E r \in BagToSet(pending) : GestureError(r)
  \/ \E g \in {"left", "right"} : handleManual(g)
  \/ \E r \in BagToSet(pending) : TimerFire(r)
  \/ \E r \in BagToSet(pending), g \in {"left", "right", "center", "none", "error"} :
        PoseResp(r, g)
  \/ \E ok \in BOOLEAN : handleChange(ok)
  \/ captureFace
  \/ \E r \in BagToSet(pending), ok \in BOOLEAN : CaptureResp(r, ok)
  \/ Retake
  \/ handleSubmit
  \/ \E r \in BagToSet(pending), u \in Users : RegisterSuccess(r, u)
  \/ \E r \in BagToSet(pending) : RegisterFailed(r)
  \/ Logout \/ Restart \/ Back \/ NavMainApp \/ NavHealth
  \/ RegisterGuest
  \/ MainTestHead
  \/ Reload

Spec == Init /\ [][Next]_vars

\* =====================================================================
\* Properties
\* =====================================================================
\* validate-face requests of interval timer k that are in flight
InFlight(k) ==
  LET S == {e \in Calls("validate") : e.loop = k}
  IN  IF S = {} THEN 0 ELSE BagCardinality([e \in S |-> pending[e]])

\* the step settles validate-face call r
Settles(r) ==
  \/ \E u \in Users : RespSuccess(r, u)
  \/ RespPrompt(r)
  \/ RespRetry(r)
  \/ RespError(r)

\* C1: face-classification polling is single-flight: no interval timer of the
\* camera view ever has two validate-face requests in flight.
C1_SingleFlight == \A k \in 1..MaxLoops : InFlight(k) <= 1

\* C2: once polling was stopped (the call's timer was cleared by a terminal
\* outcome, or its view instance was left), the response of a validate-face
\* call issued before the stop changes neither the view nor the user record.
C2_StaleResponseDiscarded ==
  [][\A r \in Calls("validate") :
       (Settles(r) /\ (~r.cur \/ loops[r.loop].st # "active"))
         => (currentView' = currentView /\ user' = user)]_vars

\* C3: at most one media stream with a live track exists at any time.
C3_OneLiveStream == Cardinality(live) <= 1

\* C4: a transition away from a camera-owning view leaves no stream live that
\* the view had acquired and not stopped; for every exit path.
C4_StreamsStoppedOnLeave ==
  [][(currentView' # currentView /\ currentView \in CameraViews)
       => acquired \cap live' = {}]_vars

\* the (source view, target view) rows of the transition table
Table ==
  {<<"camera", "main">>, <<"camera", "gesture">>, <<"gesture", "register">>,
   <<"gesture", "guest">>, <<"register", "main">>, <<"register", "guest">>,
   <<"register", "camera">>, <<"health", "camera">>}
  \cup {<<v, "camera">> : v \in Views} \cup {<<v, "health">> : v \in Views}

\* the steps that are a press of a button
UserAction ==
  {"Logout", "Restart", "Back", "NavMainApp", "NavHealth", "RegisterGuest", "Reload"}

\* C5: every change of the current view is a row of the transition table, and
\* main and guest are left only by an explicit user action.
C5_TransitionTable ==
  [][currentView' # currentView
       => /\ <<currentView, currentView'>> \in Table
          /\ currentView \in {"main", "guest"} => last'.op \in UserAction]_vars

\* C6: after MainPage 'Logout & Start Over', the header 'Restart' or GuestPage
\* back, the current view is camera and the stored user record is null.
C6_LogoutDiscardsUser ==
  [][(Logout \/ Restart \/ (currentView = "guest" /\ Back))
       => (currentView' = "camera" /\ user' = NoUser)]_vars

\* C7: handling a validate-face response {success: true, user: u} makes the
\* view main and the stored user u and stops the timer whose callback handled
\* it; a request is only ever issued by a timer that was not stopped.
C7_SuccessEndsPolling ==
  [][/\ \A r \in Calls("validate"), u \in Users :
          RespSuccess(r, u)
            => (currentView' = "main" /\ user' = u /\ loops'[r.loop].st # "active")
     /\ \A k \in 1..MaxLoops :
          InFlight(k)' > InFlight(k) => loops[k].st = "active"]_vars

C7_Witness ==
  /\ last.op = "RespSuccess" /\ last.arg = "A"
  /\ currentView = "main" /\ user = "A"
  /\ loops[last.loop].st # "active"

\* the getUserMedia attempts of CameraInterface.initializeCamera in flight
CameraAttempts == {e \in Calls("gum") : e.view = "camera"}

\* C8: a run of camera acquisition in the camera view asks for the tiers in the
\* order of `qualities`; after the first attempt that succeeds it makes no
\* further attempt and the tier of that attempt is recorded as cameraQuality;
\* it ends in the camera-unavailable failure exactly when every tier was tried
\* and rejected.
C8_TiersInOrder ==
  /\ [](\A r \in CameraAttempts :
          r.i \in 1..Len(qualities) /\ r.tried = SubSeq(qualities, 1, r.i))
  /\ [][\A r \in CameraAttempts :
          /\ GumResolve(r)
               => /\ CameraAttempts' \subseteq CameraAttempts
                  /\ r.cur => inst'.cameraQuality = r.tried[Len(r.tried)]
          /\ GumRejectNext(r)
               => \E e \in CameraAttempts' :
                    e.tried = Append(r.tried, qualities[Len(r.tried) + 1])
          /\ GumRejectAll(r)
               => /\ r.tried = qualities
                  /\ CameraAttempts' \subseteq CameraAttempts
                  /\ r.cur => inst'.message = "camfail"]_vars

C8_Witness ==
  /\ last.op = "GumResolve" /\ last.arg = "medium"
  /\ currentView = "camera" /\ inst.cameraQuality = "medium"
  /\ streamRef \in live

\* C9: when every tier of an acquisition of the camera view fails, the message
\* becomes the failure message, the view and the user stay, no interval timer
\* is created, and while the view shows the failure and holds no live stream
\* no validate-face request is issued.
C9_NoSamplingWhenUnavailable ==
  [][/\ \A r \in CameraAttempts :
          (GumRejectAll(r) /\ r.cur)
            => /\ inst'.message = "camfail"
               /\ currentView' = currentView /\ user' = user
               /\ loops' = loops
     /\ (currentView = "camera" /\ inst.message = "camfail" /\ streamRef \notin live)
          => \A k \in 1..MaxLoops : InFlight(k)' <= InFlight(k)]_vars

\* C10: a validate-face outcome that is a retry or a transport failure leaves
\* the view and the user as they are; in the mounted camera view it replaces
\* the message (the server's for a retry, the generic one for a failure) and
\* leaves the timer running with a guard that lets the next tick through.
C10_RetryKeepsPolling ==
  [][\A r \in Calls("validate") :
       /\ (RespRetry(r) \/ RespError(r))
            => /\ currentView' = currentView /\ user' = user
               /\ r.cur => /\ currentView' = "camera"
                           /\ loops'[r.loop].st = "active"
                           /\ ~Busy(loops'[r.loop])
                           /\ ~inst'.isProcessing
       /\ (RespRetry(r) /\ r.cur) => inst'.message = "server"
       /\ (RespError(r) /\ r.cur) => inst'.message = "unavailable"]_vars

C10_Witness ==
  /\ last.op = "RespRetry"
  /\ currentView = "camera" /\ inst.message = "server"
  /\ loops[last.loop].st = "active" /\ loops[last.loop].cur
  /\ ~Busy(loops[last.loop])

\* C11: in the gesture view, once a detect-gesture response was classified as
\* left or right, the instance issues no further detect-gesture request, and
\* handling the response itself changes neither the view nor the user (the
\* outcome is emitted by the confirmation timeout).
C11_GesturePollingStops ==
  [][/\ (currentView = "gesture" /\ inst.message \in {"yes", "no"})
          => \A k \in 1..MaxLoops : ~(loops[k].kind = "gesture" /\ DetectIssue(k))
     /\ \A r \in Calls("gesture"), g \in {"left", "right"} :
          GestureResp(r, g) => (currentView' = currentView /\ user' = user)]_vars

\* C12: one GestureInterface instance invokes onRegistrationStart /
\* onGuestAccess at most once in total: no timeout callback runs after another
\* callback of the same instance has already invoked one of them.
C12_OneOutcome ==
  [][\A r \in Calls("timer") : TimerFire(r) => ~r.dup]_vars

\* C13: no reachable state has a manual control invoked and the view still
\* gesture with the outcome pending.
C13_ManualImmediate ==
  ~(currentView = "gesture" /\ inst.message \in {"yesSelected", "noSelected"})

\* the gesture view shows the affirm feedback and its confirmation timeout runs
AffirmPending ==
  /\ currentView = "gesture" /\ inst.message = "yes"
  /\ \E e \in Calls("timer") : e.cur /\ e.to = "register"

\* C14: while an affirm classified from a response is pending, the manual
\* decline control can be invoked, and invoking it makes the view guest at once
\* and leaves no timeout that would make the view register.
C14_DeclineCancelsAffirm ==
  /\ [](AffirmPending => ManualEnabled)
  /\ [][(AffirmPending /\ handleManual("right"))
          => /\ currentView' = "guest"
             /\ ~\E e \in Calls("timer")' : e.to = "register"]_vars

\* a callback of interval timer k runs
Tick(k) == TickIssue(k) \/ TickSkip(k) \/ DetectIssue(k) \/ DetectSkip(k)

\* C15: a tick of an interval timer fires only while the view instance that
\* created the timer is mounted and the loop was not stopped by a terminal
\* outcome (a success / register-prompt response in the camera view, a
\* classified or manually chosen outcome in the gesture view).
C15_NoTickAfterStop ==
  [][\A k \in 1..MaxLoops :
       Tick(k) => /\ loops[k].st = "active"
                  /\ loops[k].cur
                  /\ loops[k].kind = "gesture" => inst.isDetecting]_vars

\* every issued validate-face request eventually settles
SettleSome == \E r \in Calls("validate") : Settles(r)
LiveSpec == Spec /\ WF_vars(SettleSome)

\* the mounted camera view shows the processing indicator
Processing == currentView = "camera" /\ inst.isProcessing

\* C16: if every issued request eventually settles, a state in which the
\* camera view is processing is always followed by a state in which it is not
\* (isProcessing is false again, or the view was left).
C16_ProcessingEnds == Processing ~> ~Processing

C16_Witness ==
  /\ last.op = "RespError"
  /\ currentView = "camera" /\ loops[last.loop].cur
  /\ ~inst.isProcessing /\ inst.message = "unavailable"

\* C17: a failed registration submission changes neither the view nor the
\* user; in the mounted registration view it records the submit error and
\* releases the submit button; a success response makes the view main with
\* the user of the response.
C17_FailedRegistration ==
  [][\A r \in Calls("register") :
       /\ RegisterFailed(r)
            => /\ currentView' = currentView /\ user' = user
               /\ r.cur => /\ currentView' = "register"
                           /\ "submit" \in inst'.errors
                           /\ ~inst'.isSubmitting
                           /\ inst.capturedFace => CanSubmit(inst')
       /\ \A u \in Users :
            RegisterSuccess(r, u) => (currentView' = "main" /\ user' = u)]_vars

C17_Witness ==
  /\ last.op = "RegisterFailed"
  /\ currentView = "register" /\ "submit" \in inst.errors
  /\ CanSubmit(inst)

\* C18: a camera acquisition that fails in a mounted camera-owning view is
\* followed by a visible status update of that view: its message is a failure
\* message or, in a view without a message, some state it renders changed.
C18_AcquisitionFailureVisible ==
  [][\A r \in Calls("gum") :
       (GumRejectAll(r) /\ r.cur)
         => IF "message" \in DOMAIN inst'
            THEN inst'.message \in {"camfail", "camerror"}
            ELSE inst' # inst]_vars

\* C19: a tick whose captureFrame returns null issues no request, leaves the
\* view, the user, the state of the mounted view (message, isProcessing) and
\* the outstanding calls unchanged and leaves every timer as it was.
C19_SkipIsPure ==
  [][\A k \in 1..MaxLoops :
       ((TickSkip(k) \/ DetectSkip(k)) /\ captureFrame(loops[k]) = "null")
         => UNCHANGED <<currentView, user, inst, pending, loops>>]_vars

C19_Witness ==
  /\ last.op = "TickSkip"
  /\ currentView = "camera" /\ ~video.ready
  /\ \E k \in 1..MaxLoops : loops[k].st = "active"
  /\ \A k \in 1..MaxLoops :
       loops[k].st = "active" => loops[k].cur /\ loops[k].kind = "camera" /\ ~Busy(loops[k])

\* C20: whenever the current view is guest, the stored user is the guest record.
C20_GuestUser == currentView = "guest" => user = GuestUser

C20_Witness ==
  /\ last.op = "TimerFire" /\ last.arg = "guest"
  /\ currentView = "guest" /\ user = GuestUser

C22_OpenHeadPoseTest ==
  [][(NavHealth \/ MainTestHead) => currentView' = "health"]_vars

\* detect-gesture requests of the mounted GestureInterface instance in flight
GestureInFlight ==
  LET S == {e \in Calls("gesture") : e.cur}
  IN  IF S = {} THEN 0 ELSE BagCardinality([e \in S |-> pending[e]])

\* C23: the mounted gesture view never has two detect-gesture requests in
\* flight.
C23_GestureSingleFlight == GestureInFlight <= 1

\* C24: a detect-gesture response that is neither left nor right schedules no
\* timeout and leaves what the mounted gesture view shows unchanged (the hint
\* stays, no detected-gesture feedback appears); the timers stay as they were.
C24_UndetectedIsIgnored ==
  [][\A r \in Calls("gesture"), g \in GestureOutcomes \ {"left", "right"} :
       GestureResp(r, g)
         => /\ Calls("timer")' = Calls("timer")
            /\ loops' = loops
            /\ currentView' = currentView
            /\ r.cur => inst' = inst]_vars

\* C25: a rejected detect-gesture call changes neither the view nor the user,
\* schedules no timeout and leaves the timers as they were; in the mounted
\* gesture view the message becomes the hint to use the buttons and the
\* view's timer stays active with a guard that lets the next tick through.
C25_GestureFailureAbsorbed ==
  [][\A r \in Calls("gesture") :
       GestureError(r)
         => /\ currentView' = currentView /\ user' = user
            /\ Calls("timer")' = Calls("timer")
            /\ loops' = loops
            /\ r.cur => /\ currentView' = "gesture"
                        /\ inst'.message = "unavailable"
                        /\ \E k \in 1..MaxLoops :
                             /\ loops'[k].st = "active" /\ loops'[k].cur
                             /\ loops'[k].kind = "gesture" /\ Detecting(loops'[k])]_vars

C25_Witness ==
  /\ last.op = "GestureError"
  /\ currentView = "gesture" /\ inst.message = "unavailable"
  /\ \E k \in 1..MaxLoops :
       loops[k].st = "active" /\ loops[k].cur /\ loops[k].kind = "gesture"

\* C26: the quality tag a tick sends with its validate-face request is the tier
\* at which the stream in use was acquired (cameraQuality of the mounted view).
C26_QualityTag ==
  [][\A k \in 1..MaxLoops :
       TickIssue(k) => loops[k].clo.qual = inst.cameraQuality]_vars

\* interval timers of the mounted camera view that were not cleared
CameraTimers ==
  {k \in 1..MaxLoops : loops[k].st = "active" /\ loops[k].cur /\ loops[k].kind = "camera"}

\* C27: the mounted camera view has at most one active interval timer.
C27_OneInterval == Cardinality(CameraTimers) <= 1

\* C28: whenever the view is main or guest a user is stored, and a step that
\* makes the view main or guest stores one.
C28_UserStored ==
  /\ [](currentView \in {"main", "guest"} => user # NoUser)
  /\ [][(currentView' \in {"main", "guest"} /\ currentView' # currentView)
          => (user' # NoUser /\ last'.op \in {"RespSuccess", "RegisterSuccess",
                                              "TimerFire", "RegisterGuest"})]_vars

C28_Witness ==
  /\ last.op = "RegisterSuccess" /\ last.arg = "A"
  /\ currentView = "main" /\ user = "A"

\* register requests of the mounted RegistrationForm instance in flight
RegisterInFlight ==
  LET S == {e \in Calls("register") : e.cur}
  IN  IF S = {} THEN 0 ELSE BagCardinality([e \in S |-> pending[e]])

\* C29: the mounted registration view never has two register requests in
\* flight, and a register request is only issued with a captured face.
C29_RegisterSingleFlight ==
  /\ [](RegisterInFlight <= 1)
  /\ [][RegisterInFlight' > RegisterInFlight
          => (RegisterInFlight = 0 /\ inst.capturedFace)]_vars

C29_Witness ==
  /\ currentView = "register" /\ RegisterInFlight = 1
  /\ inst.isSubmitting /\ inst.capturedFace

====
